---- MODULE Spec2Model ----
(***************************************************************************)
(* A model of the plotting routines of dynamo/plot: show_fraction and      *)
(* phase_portraits (preprocess.py) and scatters (scatters.py).             *)
(*                                                                         *)
(* Each routine is a straight-line program over an AnnData object.  The    *)
(* model follows one call at a time: `pc` is the block of the routine that *)
(* runs next, `loc` holds the local variables assigned so far (a name that *)
(* is not in DOMAIN loc is unbound, and reading it is Python's             *)
(* UnboundLocalError), `exc` is the exception that ended the call and      *)
(* `plots` the calls made into matplotlib / seaborn.                       *)
(*                                                                         *)
(* Python strings carry their value and whether the object is the interned *)
(* one, because the code compares strings with `is`: a literal, a default  *)
(* argument and a literal passed by the caller are the interned object, a  *)
(* string computed at run time is not.                                     *)
(***************************************************************************)
EXTENDS Integers, Sequences, FiniteSets, TLC

VARIABLES fn, pc, adata, args, loc, exc, plots

vars == <<fn, pc, adata, args, loc, exc, plots>>

(***************************************************************************)
(* Bounds of the model.                                                    *)
(***************************************************************************)
NCells == 2
NVars == 2
MaxCount == 1
NGenes == 3
MaxColumns == 3
MaxPcs == 4
MaxRatio == 2
MaxVelocity == 2

Cells == 1..NCells
Vars == 1..NVars

(***************************************************************************)
(* Python values.                                                          *)
(***************************************************************************)
Lit(v) == [val |-> v, interned |-> TRUE]
Dyn(v) == [val |-> v, interned |-> FALSE]

\* Python `a is 'lit'`: the same object as the interned literal.
Is(a, lit) == a.val = lit /\ a.interned

None == [some |-> FALSE, val |-> ""]
Some(v) == [some |-> TRUE, val |-> v]

NoLocals == [n \in {} |-> 0]
Bind(l, n, v) == [x \in (DOMAIN l) \cup {n} |-> IF x = n THEN v ELSE l[x]]
Bound(l, n) == n \in DOMAIN l

\* all([i in keys for i in required])
AnyIn(required, keys) == \E i \in required : i \in keys
AllIn(required, keys) == \A i \in required : i \in keys

RECURSIVE SumTo(_, _)
SumTo(row, n) == IF n = 0 THEN 0 ELSE row[n] + SumTo(row, n - 1)

RECURSIVE Gcd(_, _)
Gcd(a, b) == IF b = 0 THEN a ELSE Gcd(b, a % b)

(***************************************************************************)
(* Arrays.  A layer is a cells x genes matrix of counts, dense (ndarray)   *)
(* or sparse; a per-cell vector is an ndarray or, as the result of a       *)
(* sparse matrix's sum, a numpy matrix, which alone has the attribute A1.  *)
(***************************************************************************)
Ok(kind, data) == [err |-> "none", kind |-> kind, data |-> data]
Err(e) == [err |-> e, kind |-> "none", data |-> <<>>]

RowSums(mat) == [c \in Cells |-> SumTo(mat[c], NVars)]

\* np.sum(mat, 1)
NpSum1(layer) ==
    IF layer.err # "none" THEN layer
    ELSE Ok(IF layer.kind = "sparse" THEN "matrix" ELSE "ndarray", RowSums(layer.data))

\* mat.sum(1)
MethodSum1(layer) ==
    IF layer.err # "none" THEN layer
    ELSE Ok(IF layer.kind = "sparse" THEN "matrix" ELSE "ndarray", RowSums(layer.data))

\* v.A1
A1(v) ==
    IF v.err # "none" THEN v
    ELSE IF v.kind = "matrix" THEN Ok("ndarray", v.data)
    ELSE Err("AttributeError")

\* issparse(mat)
issparse(layer) == layer.kind = "sparse"

\* adata.layers[k]
GetLayer(a, k) ==
    IF k \in DOMAIN a.layers
    THEN Ok(IF a.sparse THEN "sparse" ELSE "dense", a.layers[k])
    ELSE Err("KeyError")

\* The first exception raised while the elements of a tuple display are
\* evaluated left to right, and the ValueError of unpacking it into n names.
RECURSIVE FirstErr(_, _)
FirstErr(seq, i) ==
    IF i > Len(seq) THEN "none"
    ELSE IF seq[i].err # "none" THEN seq[i].err
    ELSE FirstErr(seq, i + 1)

UnpackErr(n, seq) ==
    IF FirstErr(seq, 1) # "none" THEN FirstErr(seq, 1)
    ELSE IF Len(seq) # n THEN "ValueError"
    ELSE "none"

\* Elementwise true division of per-cell vectors, kept exact: a value is a
\* fraction in lowest terms, nan for 0/0 and inf for x/0.
Div(n, d) ==
    IF d = 0 THEN [kind |-> IF n = 0 THEN "nan" ELSE "inf", num |-> 0, den |-> 1]
    ELSE [kind |-> "num", num |-> n \div Gcd(n, d), den |-> d \div Gcd(n, d)]

VecDiv(x, y) == [c \in Cells |-> Div(x[c], y[c])]
VecAdd(x, y) == [c \in Cells |-> x[c] + y[c]]

\* 1 - v
OneMinus(v) ==
    IF v.kind = "num" THEN Div(v.den - v.num, v.den) ELSE v

\* pd.DataFrame(...).melt(value_vars=..., id_vars=['group']): one row per cell
\* for each value column, the columns stacked in the order of value_vars.
\* (`cell` is the position of the row within its block, `group` is "" when the
\* table has no id column.)
Melt(df, value_vars, group_col) ==
    [k \in 1..(NCells * Len(value_vars)) |->
        LET vi == ((k - 1) \div NCells) + 1
            c  == ((k - 1) % NCells) + 1
        IN  [variable |-> value_vars[vi], value |-> df[value_vars[vi]][c],
             cell |-> c, group |-> group_col[c]]]

NoGroup == [c \in Cells |-> ""]

Raised(e) == [exc |-> e, res |-> <<>>]
Table(res) == [exc |-> "none", res |-> res]

(***************************************************************************)
(* show_fraction                                                           *)
(***************************************************************************)
ModeNames == {"labelling", "splicing", "full"}

\* mode in ['labelling', 'splicing', 'full']
AnyMode(mode) == TRUE
ValidMode(mode) == mode.val \in ModeNames

CorruptedMsg == "Your adata is corrupted"
ModeMsg == "mode can be only one of the labelling, splicing or full"

\* The branch of mode 'labelling'.
LabellingTable(a, group) ==
    LET new_mat   == GetLayer(a, "new")
        total_mat == GetLayer(a, "total")
        \* a, b if c else d, e  is the tuple  (a, (b if c else d), e)
        rhs == <<NpSum1(new_mat),
                 IF ~issparse(new_mat) THEN NpSum1(total_mat) ELSE A1(MethodSum1(new_mat)),
                 A1(MethodSum1(total_mat))>>
    IN  IF UnpackErr(2, rhs) # "none" THEN Raised(UnpackErr(2, rhs))
        ELSE LET new_frac_cell == VecDiv(rhs[1].data, rhs[2].data)
                 old_frac_cell == [c \in Cells |-> OneMinus(new_frac_cell[c])]
                 df == [new_frac_cell |-> new_frac_cell, old_frac_cell |-> old_frac_cell]
             IN  \* adata.obs.key(): a DataFrame has no attribute key
                 IF group.some THEN Raised("AttributeError")
                 ELSE Table(Melt(df, <<"new_frac_cell", "old_frac_cell">>, NoGroup))

\* tot_cell_sum of the branch of mode 'splicing'.
SplicingTotalNoAmbiguous(un, sp, am, has_ambiguous) == VecAdd(un, sp)
SplicingTotal(un, sp, am, has_ambiguous) ==
    IF has_ambiguous THEN VecAdd(VecAdd(un, sp), am) ELSE VecAdd(un, sp)

\* The branch of mode 'splicing'.
SplicingTable(a, group) ==
    LET has_ambiguous == "ambiguous" \in DOMAIN a.layers
        unspliced_mat == GetLayer(a, "unspliced")
        spliced_mat   == GetLayer(a, "spliced")
        ambiguous_mat == IF has_ambiguous THEN GetLayer(a, "ambiguous")
                         ELSE Ok(unspliced_mat.kind, <<<<0>>>>)
        sums == IF ~issparse(unspliced_mat)
                THEN <<NpSum1(unspliced_mat), NpSum1(spliced_mat)>>
                ELSE <<A1(MethodSum1(unspliced_mat)), A1(MethodSum1(spliced_mat))>>
        am_cell_sum == IF issparse(unspliced_mat) THEN A1(MethodSum1(ambiguous_mat))
                       ELSE NpSum1(ambiguous_mat)
        use_group == group.some /\ group.val \in DOMAIN a.obs
        group_col == IF use_group THEN a.obs[group.val] ELSE NoGroup
    IN  IF UnpackErr(2, sums) # "none" THEN Raised(UnpackErr(2, sums))
        ELSE IF has_ambiguous
        THEN IF am_cell_sum.err # "none" THEN Raised(am_cell_sum.err)
             ELSE LET tot_cell_sum == SplicingTotal(sums[1].data, sums[2].data,
                                                    am_cell_sum.data, TRUE)
                      df == [unspliced |-> VecDiv(sums[1].data, tot_cell_sum),
                             spliced   |-> VecDiv(sums[2].data, tot_cell_sum),
                             ambiguous |-> VecDiv(am_cell_sum.data, tot_cell_sum)]
                  IN  Table(Melt(df, <<"unspliced", "spliced", "ambiguous">>, group_col))
        ELSE LET tot_cell_sum == SplicingTotal(sums[1].data, sums[2].data,
                                               sums[1].data, FALSE)
                 df == [unspliced |-> VecDiv(sums[1].data, tot_cell_sum),
                        spliced   |-> VecDiv(sums[2].data, tot_cell_sum)]
             IN  Table(Melt(df, <<"unspliced", "spliced">>, group_col))

\* The branch of mode 'full'.
FullTable(a, group) ==
    LET uu == GetLayer(a, "uu")
        ul == GetLayer(a, "ul")
        su == GetLayer(a, "su")
        sl == GetLayer(a, "sl")
        \* seven elements: the conditional binds only the fourth
        rhs == <<NpSum1(uu), NpSum1(ul), NpSum1(su),
                 IF ~issparse(uu) THEN NpSum1(sl) ELSE A1(MethodSum1(uu)),
                 A1(MethodSum1(ul)), A1(MethodSum1(su)), A1(MethodSum1(sl))>>
    IN  IF UnpackErr(4, rhs) # "none" THEN Raised(UnpackErr(4, rhs))
        \* su / tot_cell_sum and sl / tot_cell_sum are cells x genes
        \* matrices, which pd.DataFrame does not take as columns
        ELSE Raised("ValueError")

\* The if / elif chain that builds the long table `res`.
FractionTable(a, mode, group) ==
    IF Is(mode, "labelling") /\ AllIn({"new", "total"}, DOMAIN a.layers)
    THEN LabellingTable(a, group)
    ELSE IF Is(mode, "splicing") /\ AllIn({"spliced", "unspliced"}, DOMAIN a.layers)
    THEN SplicingTable(a, group)
    ELSE IF Is(mode, "full") /\ AllIn({"uu", "ul", "su", "sl"}, DOMAIN a.layers)
    THEN FullTable(a, group)
    ELSE Raised(CorruptedMsg)

(***************************************************************************)
(* The AnnData objects and arguments the calls are made with.              *)
(***************************************************************************)
\* A cells x genes count matrix, one for each pair of parameters.
Sample(a, b) == [c \in Cells |-> [g \in Vars |-> (a * c + b * g) % (MaxCount + 1)]]

Seeds == (0..MaxCount) \X (0..MaxCount)

ObsTable ==
    [batch  |-> [c \in Cells |-> IF c % 2 = 0 THEN "b0" ELSE "b1"],
     leiden |-> [c \in Cells |-> IF c = 1 THEN "l0" ELSE "l1"]]

AnnData(layers, sparse, obs, obsm, var_index, var_columns) ==
    [layers |-> layers, sparse |-> sparse, obs |-> obs, obsm |-> obsm,
     var_index |-> var_index, var_columns |-> var_columns]

NoAdata == AnnData(<<>>, FALSE, <<>>, {}, <<>>, {})
NoArgs == [mode |-> Lit("")]

\* Layer sets: every mix of complete, partial and absent layer families.
FractionLayerSets ==
    {A \cup B \cup C \cup D :
        A \in {{}, {"new"}, {"new", "total"}},
        B \in {{}, {"spliced"}, {"spliced", "unspliced"}},
        C \in {{}, {"ambiguous"}},
        D \in {{}, {"uu", "ul", "su"}, {"uu", "ul", "su", "sl"}}}

FractionAdata ==
    {AnnData([k \in L |-> Sample(1, 0)], sp, ObsTable, {}, <<>>, {}) :
        L \in FractionLayerSets, sp \in BOOLEAN}
    \cup
    {AnnData([unspliced |-> Sample(u[1], u[2]), spliced |-> Sample(s[1], s[2])],
             sp, ObsTable, {}, <<>>, {}) :
        u \in Seeds, s \in Seeds, sp \in BOOLEAN}
    \cup
    {AnnData([unspliced |-> Sample(u[1], u[2]), spliced |-> Sample(s[1], s[2]),
              ambiguous |-> Sample(m[1], m[2])],
             sp, ObsTable, {}, <<>>, {}) :
        u \in Seeds, s \in Seeds, m \in Seeds, sp \in BOOLEAN}

ModeArgs ==
    {Lit(m) : m \in ModeNames} \cup {Dyn(m) : m \in ModeNames} \cup {Lit("velocity")}

GroupArgs == {None, Some("batch"), Some("cluster")}

\* adata.var.index holds the genes 1..NGenes; 0 is a gene adata does not have.
VarIndex == [i \in 1..NGenes |-> i]

GeneArgs == {0..n : n \in 0..NGenes} \cup {1..n : n \in 1..NGenes}

Layers(keys) == [k \in keys |-> Sample(1, 0)]

PortraitLayerSets ==
    {{"new", "total", "velocity_S", "velocity"},
     {"spliced", "unspliced", "velocity_S", "velocity_U"},
     {"spliced", "unspliced", "X_spliced", "X_unspliced", "velocity_S", "velocity_U"},
     {"uu", "ul", "su", "sl", "X_uu", "X_ul", "X_su", "X_sl", "velocity_S"},
     {"uu", "ul", "su", "sl", "X_uu", "X_ul", "X_su", "X_sl", "velocity_S", "velocity_P"},
     {"spliced", "X_spliced", "X_unspliced"}}

ObsmSets == {{"X_umap"}, {"X_umap", "protein", "velocity_P"}}

PortraitVarColumns ==
    {{}, {"velocity_parameter_gamma", "velocity_parameter_eta"}}

PortraitAdata ==
    {AnnData(Layers(L), FALSE, ObsTable, om, VarIndex, vc) :
        L \in PortraitLayerSets, om \in ObsmSets, vc \in PortraitVarColumns}

PortraitModeArgs == {Lit(m) : m \in ModeNames} \cup {Dyn("splicing"), Lit("velocity")}
VkeyArgs == {Lit("S"), Lit("U"), Lit("velocity"), Lit("velocity_S")}
EkeyArgs == {Lit("X"), Lit("spliced")}
BasisArgs == {"umap", "pca"}
\* color is None or a list of names
NoColor == [some |-> FALSE, val |-> {}]
NoList == [some |-> FALSE, val |-> <<>>]
ColorArgs == {NoColor, Some({"batch"}), Some({"batch", "leiden"}), Some({"cluster"})}

ScatterLayerSets ==
    {{"X_new", "X_total", "velocity_S"},
     {"X_spliced", "X_unspliced", "velocity_S", "velocity_U"},
     {"X_uu", "X_ul", "X_su", "X_sl", "velocity_S"},
     {"X_new", "X_total", "X_spliced", "X_unspliced", "velocity_S"},
     {"X_spliced", "velocity_S"}}

ScatterAdata ==
    {AnnData(Layers(L), FALSE, ObsTable, om, VarIndex, {"gamma", "gamma_b"}) :
        L \in ScatterLayerSets, om \in ObsmSets}

TypeArgs ==
    {Lit(t) : t \in {"embedding", "expression", "velocity", "phase"}} \cup {Dyn("embedding")}
VelocityKeyArgs == {Lit("S"), Lit("U"), Lit("velocity_S")}
ThemeArgs == {Some("fire"), None}

(***************************************************************************)
(* The calls.                                                              *)
(***************************************************************************)
Init ==
    /\ fn = "none"
    /\ pc = "idle"
    /\ adata = NoAdata
    /\ args = NoArgs
    /\ loc = NoLocals
    /\ exc = "none"
    /\ plots = <<>>

Start(f, a, ar, first) ==
    /\ fn' = f
    /\ adata' = a
    /\ args' = ar
    /\ loc' = NoLocals
    /\ exc' = "none"
    /\ plots' = <<>>
    /\ pc' = first

\* raise Exception(e)
Raise(e) ==
    /\ exc' = e
    /\ pc' = "done"
    /\ UNCHANGED <<fn, adata, args, loc, plots>>

Goto(next) ==
    /\ pc' = next
    /\ UNCHANGED <<fn, adata, args, exc, plots>>

\* The call has returned or raised; the next call starts afresh.
Return ==
    /\ pc = "done"
    /\ fn' = "none"
    /\ pc' = "idle"
    /\ adata' = NoAdata
    /\ args' = NoArgs
    /\ loc' = NoLocals
    /\ exc' = "none"
    /\ plots' = <<>>

CallShowFraction ==
    /\ pc = "idle"
    /\ \E a \in FractionAdata, m \in ModeArgs, g \in GroupArgs :
          Start("show_fraction", a, [mode |-> m, group |-> g], "sf_mode")

\* if not (mode in [...]): raise
SfModeCheck ==
    /\ pc = "sf_mode"
    /\ IF ~ValidMode(args.mode)
       THEN Raise(ModeMsg)
       ELSE Goto("sf_table") /\ UNCHANGED loc

\* The if / elif / else chain that leaves the long table in `res`.
SfTable ==
    /\ pc = "sf_table"
    /\ LET t == FractionTable(adata, args.mode, args.group)
       IN  IF t.exc # "none"
           THEN Raise(t.exc)
           ELSE Goto("sf_plot") /\ loc' = Bind(loc, "res", t.res)

\* sns.violinplot / sns.catplot on `res`, then plt.show().
SfPlot ==
    /\ pc = "sf_plot"
    /\ plots' = IF ~args.group.some THEN <<"violinplot", "show">>
                ELSE <<"catplot", "show">>
    /\ pc' = "done"
    /\ UNCHANGED <<fn, adata, args, loc, exc>>

ShowFraction == CallShowFraction \/ SfModeCheck \/ SfTable \/ SfPlot

(***************************************************************************)
(* phase_portraits                                                         *)
(***************************************************************************)
NoGenesMsg == "adata has no genes listed in your input gene vector"
NoBasisMsg == "basis is not applied to adata"
NoVkeyMsg == "adata has no vkey"
NoGammaMsg == "adata does not seem to have velocity_gamma column"

\* adata.var.index[adata.var.index.isin(genes)].tolist()
AllGenes(a, genes) == a.var_index
MatchedGenes(a, genes) == SelectSeq(a.var_index, LAMBDA g : g \in genes)

\* int(np.ceil(a / b))
CeilDiv(a, b) == (a + b - 1) \div b

Call(name, at) == [call |-> name, at |-> at]

CallPhasePortraits ==
    /\ pc = "idle"
    /\ \E a \in PortraitAdata, g \in GeneArgs, m \in PortraitModeArgs, v \in VkeyArgs,
          e \in EkeyArgs, b \in BasisArgs, c \in ColorArgs :
          Start("phase_portraits", a,
                [genes |-> g, mode |-> m, vkey |-> v, ekey |-> e, basis |-> b, color |-> c],
                "pp_genes")

\* genes, idx = ...; if len(genes) == 0: raise
PpGenes ==
    /\ pc = "pp_genes"
    /\ LET genes == MatchedGenes(adata, args.genes)
       IN  IF Len(genes) = 0
           THEN Raise(NoGenesMsg)
           ELSE Goto("pp_basis") /\ loc' = Bind(loc, "genes", genes)

\* if not 'X_' + basis in adata.obsm.keys(): raise; else: embedding = ...
PpBasis ==
    /\ pc = "pp_basis"
    /\ IF ("X_" \o args.basis) \notin adata.obsm
       THEN Raise(NoBasisMsg)
       ELSE Goto("pp_mode") /\ loc' = Bind(loc, "embedding", "X_" \o args.basis)

\* if not (mode in [...]): raise
PpMode ==
    /\ pc = "pp_mode"
    /\ IF ~ValidMode(args.mode)
       THEN Raise(ModeMsg)
       ELSE Goto("pp_inputs") /\ UNCHANGED loc

\* E_vec after the lookup of ekey: bound to a slot, left unbound, or a KeyError.
ExpressionVector(a, ekey) ==
    LET layers == (DOMAIN a.layers) \cup {"X", "protein", "X_protein"}
    IN  IF ekey.val \notin layers THEN [err |-> "none", bound |-> FALSE, from |-> ""]
        ELSE IF Is(ekey, "X") THEN [err |-> "none", bound |-> TRUE, from |-> "X"]
        ELSE IF ekey.val \in {"protein", "X_protein"}
        THEN IF ekey.val \in a.obsm
             THEN [err |-> "none", bound |-> TRUE, from |-> ekey.val]
             ELSE [err |-> "KeyError", bound |-> FALSE, from |-> ""]
        ELSE IF ekey.val \in DOMAIN a.layers
             THEN [err |-> "none", bound |-> TRUE, from |-> ekey.val]
             ELSE [err |-> "KeyError", bound |-> FALSE, from |-> ""]

\* layers = ...; E_vec; n_cells, n_genes; color_vec
PpInputs ==
    /\ pc = "pp_inputs"
    /\ LET e  == ExpressionVector(adata, args.ekey)
           l1 == IF e.bound THEN Bind(loc, "E_vec", e.from) ELSE loc
           l2 == Bind(Bind(l1, "n_cells", NCells), "n_genes", Len(loc.genes))
           \* np.repeat(np.nan, n_cells), or the list of the matching obs keys
           n  == IF ~args.color.some THEN NCells
                 ELSE Cardinality(args.color.val \cap DOMAIN adata.obs)
       IN  IF e.err # "none"
           THEN Raise(e.err)
           ELSE Goto("pp_vkey") /\ loc' = Bind(l2, "color_vec", n)

\* The velocity lookup of phase_portraits: V_vec and P_vec, or the exception.
PortraitVelocity(a, vkey) ==
    IF Is(vkey, "U")
    THEN IF "velocity_U" \notin DOMAIN a.layers THEN [err |-> "KeyError", P |-> FALSE, V |-> ""]
         \* adata[:, genes].layer: AnnData has no attribute layer
         ELSE IF "velocity_P" \in a.obsm THEN [err |-> "AttributeError", P |-> FALSE, V |-> ""]
         ELSE [err |-> "none", P |-> FALSE, V |-> "velocity_U"]
    ELSE IF Is(vkey, "S")
    THEN IF "velocity_S" \notin DOMAIN a.layers THEN [err |-> "KeyError", P |-> FALSE, V |-> ""]
         ELSE IF "velocity_P" \in a.obsm
         THEN IF "velocity_P" \notin DOMAIN a.layers
              THEN [err |-> "KeyError", P |-> FALSE, V |-> ""]
              ELSE [err |-> "none", P |-> TRUE, V |-> "velocity_S"]
         ELSE [err |-> "none", P |-> FALSE, V |-> "velocity_S"]
    ELSE [err |-> NoVkeyMsg, P |-> FALSE, V |-> ""]

\* if vkey is 'U' ... elif vkey is 'S' ... else: raise; if issparse(E_vec): ...
PpVkey ==
    /\ pc = "pp_vkey"
    /\ LET v  == PortraitVelocity(adata, args.vkey)
           l1 == Bind(loc, "V_vec", v.V)
           l2 == IF v.P THEN Bind(l1, "P_vec", "velocity_P") ELSE l1
       IN  IF v.err # "none" THEN Raise(v.err)
           ELSE IF ~Bound(loc, "E_vec") THEN Raise("UnboundLocalError")
           ELSE Goto("pp_gamma") /\ loc' = l2

\* if 'velocity_parameter_gamma' in adata.var.columns: ... else: raise
PpGamma ==
    /\ pc = "pp_gamma"
    /\ IF "velocity_parameter_gamma" \in adata.var_columns
       THEN Goto("pp_table")
            /\ loc' = Bind(Bind(loc, "gamma", loc.n_genes), "velocity_offset", loc.n_genes)
       ELSE Raise(NoGammaMsg)


\* The if / elif / else chain of phase_portraits that builds the table df;
\* list_in_keys is the outcome of  ['X_protein'] in adata.obsm.keys(),  which
\* is a TypeError where keys() hashes its operand and False where it does not.
PortraitTable(a, mode, l, list_in_keys) ==
    LET keys == DOMAIN a.layers
        \* every column of df has n_cells * n_genes entries
        color_ok == l.color_vec * l.n_genes = l.n_cells * l.n_genes
        frame == IF color_ok THEN "none" ELSE "ValueError"
    IN  IF Is(mode, "labelling") /\ AllIn({"new", "total"}, keys)
        THEN frame
        ELSE IF Is(mode, "splicing") /\ AllIn({"spliced", "unspliced"}, keys)
        THEN IF ~AllIn({"X_unspliced", "X_spliced"}, keys) THEN "KeyError" ELSE frame
        ELSE IF Is(mode, "full") /\ AllIn({"uu", "ul", "su", "sl"}, keys)
        THEN IF ~AllIn({"X_uu", "X_ul", "X_su", "X_sl"}, keys) THEN "KeyError"
             ELSE IF "protein" \in a.obsm
             THEN IF "velocity_parameter_eta" \notin a.var_columns THEN NoGammaMsg
                  ELSE IF list_in_keys = "TypeError" THEN "TypeError"
                  ELSE IF ~Bound(l, "P_vec") THEN "UnboundLocalError"
                  \* velocity_offset_P = [0] * n_cells without the column
                  ELSE IF "velocity_offset_P" \notin a.var_columns /\ l.n_cells # l.n_genes
                  THEN "ValueError"
                  ELSE frame
             ELSE frame
        ELSE CorruptedMsg

PpTable ==
    /\ pc = "pp_table"
    /\ \E list_in_keys \in {"TypeError", "False"} :
          LET e == PortraitTable(adata, args.mode, loc, list_in_keys)
          IN  IF e # "none" THEN Raise(e)
              ELSE Goto("pp_figure") /\ loc' = Bind(loc, "df", args.mode.val)

\* n_columns of phase_portraits
PortraitColumns(a, mode) == IF "protein" \in a.obsm /\ Is(mode, "full") THEN 6 ELSE 3

\* n_columns; nrow, ncol; plt.figure; gs = plt.GridSpec(nrow, ncol)
PpFigure ==
    /\ pc = "pp_figure"
    /\ LET n_columns == PortraitColumns(adata, args.mode)
           nrow == CeilDiv(n_columns * loc.n_genes, 6)
       IN  /\ loc' = Bind(Bind(Bind(Bind(loc, "n_columns", n_columns), "nrow", nrow),
                               "ncol", 6), "i", 0)
           /\ plots' = <<Call("figure", nrow * 6)>>
    /\ pc' = "pp_panels"
    /\ UNCHANGED <<fn, adata, args, exc>>

\* The grid cells gs[...] of the axes of gene i (counted from 0).
PortraitCells(i, n_columns) == [k \in 1..n_columns |-> i * 3 + (k - 1)]

\* One turn of  for i, gn in enumerate(genes),  then tight_layout and show.
PpPanels ==
    /\ pc = "pp_panels"
    /\ IF loc.i >= Len(loc.genes)
       THEN /\ plots' = plots \o <<Call("tight_layout", 0), Call("show", 0)>>
            /\ pc' = "done"
            /\ UNCHANGED <<fn, adata, args, loc, exc>>
       ELSE LET cells == PortraitCells(loc.i, loc.n_columns)
                axes  == [k \in 1..Len(cells) |-> Call("subplot", cells[k])]
            IN  IF \E k \in 1..Len(cells) : cells[k] >= loc.nrow * loc.ncol
                THEN Raise("IndexError")
                ELSE /\ plots' = plots \o axes
                     /\ UNCHANGED <<fn, adata, args>>
                     /\ IF /\ "protein" \in adata.obsm
                           /\ Is(args.mode, "full")
                           /\ AllIn({"uu", "ul", "su", "sl"}, DOMAIN adata.layers)
                        \* hue=group: no such name in phase_portraits
                        THEN exc' = "NameError" /\ pc' = "done" /\ UNCHANGED loc
                        ELSE /\ loc' = [loc EXCEPT !.i = loc.i + 1]
                             /\ UNCHANGED <<pc, exc>>

PhasePortraits ==
    \/ CallPhasePortraits
    \/ PpGenes
    \/ PpBasis
    \/ PpMode
    \/ PpInputs
    \/ PpVkey
    \/ PpGamma
    \/ PpTable
    \/ PpFigure
    \/ PpPanels

(***************************************************************************)
(* scatters                                                                *)
(***************************************************************************)
DetectMsg == "your data should be in one of the proper mode"

\* 'sub' in s
Contains(s, sub) ==
    \E i \in 1..(Len(s) - Len(sub) + 1) : SubSeq(s, i, i + Len(sub) - 1) = sub

\* list(S): the elements of a set in an order the program does not control
Orderings(S) ==
    {q \in [1..Cardinality(S) -> S] : \A i, j \in 1..Cardinality(S) : q[i] = q[j] => i = j}

CallScatters ==
    /\ pc = "idle"
    /\ \E a \in ScatterAdata, g \in GeneArgs, t \in TypeArgs, v \in VelocityKeyArgs,
          e \in EkeyArgs, b \in BasisArgs, n \in 1..MaxColumns, c \in ColorArgs,
          th \in ThemeArgs :
          Start("scatters", a,
                [genes |-> g, type |-> t, velocity_key |-> v, ekey |-> e, basis |-> b,
                 n_columns |-> n, color |-> c, theme |-> th],
                "sc_genes")

\* genes, idx = ...; if len(genes) == 0: raise
ScGenes ==
    /\ pc = "sc_genes"
    /\ LET genes == MatchedGenes(adata, args.genes)
       IN  IF Len(genes) = 0
           THEN Raise(NoGenesMsg)
           ELSE Goto("sc_basis") /\ loc' = Bind(loc, "genes", genes)

\* if not 'X_' + basis in adata.obsm.keys(): raise; else: embedding = ...
ScBasis ==
    /\ pc = "sc_basis"
    /\ IF ("X_" \o args.basis) \notin adata.obsm
       THEN Raise(NoBasisMsg)
       ELSE Goto("sc_detect") /\ loc' = Bind(loc, "embedding", "X_" \o args.basis)

\* The label the layers are given: mode = 'labeling' | 'splicing' | 'full'.
DetectedLabel(keys) ==
    IF AllIn({"X_new", "X_total"}, keys) THEN "labeling"
    ELSE IF AllIn({"X_spliced", "X_unspliced"}, keys) THEN "splicing"
    ELSE IF AllIn({"X_uu", "X_ul", "X_su", "X_sl"}, keys) THEN "full"
    ELSE "none"

\* if all(...): mode = ... elif ... else: raise
ScDetect ==
    /\ pc = "sc_detect"
    /\ LET label == DetectedLabel(DOMAIN adata.layers)
       IN  IF label = "none"
           THEN Raise(DetectMsg)
           ELSE Goto("sc_inputs") /\ loc' = Bind(loc, "mode", Lit(label))

\* layers = ...; E_vec; n_cells, n_genes; color_vec, color, full_color_vec
ScInputs ==
    /\ pc = "sc_inputs"
    /\ LET e  == ExpressionVector(adata, args.ekey)
           l1 == IF e.bound THEN Bind(loc, "E_vec", e.from) ELSE loc
           l2 == Bind(Bind(Bind(l1, "n_cells", NCells), "n_genes", Len(loc.genes)),
                      "color_vec", "nan")
       IN  IF e.err # "none" THEN Raise(e.err)
           ELSE IF ~args.color.some
           THEN Goto("sc_vkey") /\ loc' = Bind(l2, "color", NoList)
           ELSE \E color \in Orderings(args.color.val \cap DOMAIN adata.obs) :
                   LET l3 == Bind(l2, "color", Some(color))
                   IN  IF Len(color) > 0 /\ ~Is(args.type, "embedding")
                       THEN Goto("sc_vkey") /\ loc' = Bind(l3, "color_vec", color[1])
                       \* adata.obs[color[0]] of an empty list
                       ELSE IF Len(color) = 0 THEN Raise("IndexError")
                       ELSE /\ Goto("sc_vkey")
                            /\ loc' = Bind(Bind(Bind(l3, "n_genes", Len(color)),
                                                "color_vec", color[1]),
                                           "full_color_vec", color)

\* if 'velocity_' not in velocity_key: vkey = 'velocity_' + velocity_key
ScVkey ==
    /\ pc = "sc_vkey"
    /\ Goto("sc_table")
    /\ loc' = IF ~Contains(args.velocity_key.val, "velocity_")
              THEN Bind(loc, "vkey", Dyn("velocity_" \o args.velocity_key.val))
              ELSE loc


\* The velocity lookup of scatters, on the local vkey (the same chain as in
\* phase_portraits).
ScatterVelocity(a, l) ==
    IF ~Bound(l, "vkey") THEN [err |-> "UnboundLocalError", P |-> FALSE, V |-> ""]
    ELSE PortraitVelocity(a, l.vkey)

\* The labels the table-building chain of scatters tests mode against.
DispatchLabels == {"labelling", "splicing", "full"}

\* if mode is 'labelling' ... elif mode is 'splicing' ... elif mode is 'full'
\* ... else: raise
ScatterDispatch(a, l, list_in_keys) ==
    LET keys == DOMAIN a.layers
    IN  IF Is(l.mode, "labelling")
        THEN IF ~AllIn({"X_new", "X_total"}, keys) THEN "KeyError" ELSE "none"
        ELSE IF Is(l.mode, "splicing")
        THEN IF ~AllIn({"X_unspliced", "X_spliced"}, keys) THEN "KeyError" ELSE "none"
        ELSE IF Is(l.mode, "full")
        THEN IF ~AllIn({"X_uu", "X_ul", "X_su", "X_sl"}, keys) THEN "KeyError"
             ELSE IF "protein" \in a.obsm
             THEN IF "eta" \notin a.var_columns THEN NoGammaMsg
                  \* adata.var.delta
                  ELSE IF "delta" \notin a.var_columns THEN "AttributeError"
                  ELSE IF list_in_keys = "TypeError" THEN "TypeError"
                  ELSE IF ~Bound(l, "P_vec") THEN "UnboundLocalError"
                  ELSE IF "delta_b" \notin a.var_columns /\ l.n_cells # l.n_genes
                  THEN "ValueError"
                  ELSE "none"
             ELSE "none"
        ELSE CorruptedMsg

\* if type is 'embedding': df = ... else: velocities, gamma and the table
ScatterTable(a, type, l, list_in_keys) ==
    IF Is(type, "embedding")
    THEN IF ~Bound(l, "full_color_vec") THEN "UnboundLocalError" ELSE "none"
    ELSE LET v == ScatterVelocity(a, l)
         IN  IF v.err # "none" THEN v.err
             ELSE IF ~Bound(l, "E_vec") THEN "UnboundLocalError"
             ELSE IF "gamma" \notin a.var_columns THEN NoGammaMsg
             ELSE ScatterDispatch(a, IF v.P THEN Bind(l, "P_vec", "velocity_P") ELSE l,
                                  list_in_keys)

ScTable ==
    /\ pc = "sc_table"
    /\ \E list_in_keys \in {"TypeError", "False"} :
          LET e == ScatterTable(adata, args.type, loc, list_in_keys)
          IN  IF e # "none" THEN Raise(e)
              ELSE Goto("sc_theme") /\ loc' = Bind(loc, "df", args.type.val)

\* Whether the chain on `type` assigns cmap, color_key_cmap and background.
ThemeAssigned(type) ==
    IF ~Is(type, "embedding") THEN TRUE
    ELSE IF Is(type, "phase") THEN TRUE
    ELSE IF Is(type, "velocity") THEN TRUE
    ELSE IF Is(type, "expression") THEN TRUE
    ELSE FALSE

\* if type is not 'embedding': ... else: if type is "phase": ... elif ...
ScTheme ==
    /\ pc = "sc_theme"
    /\ Goto("sc_font")
    /\ loc' = IF ThemeAssigned(args.type)
              THEN LET theme == IF args.theme.some THEN args.theme.val ELSE "default"
                   IN  Bind(Bind(Bind(loc, "cmap", theme), "color_key_cmap", theme),
                            "background", theme)
              ELSE loc

\* font_color = _select_font_color(background)
ScFont ==
    /\ pc = "sc_font"
    /\ IF ~Bound(loc, "background")
       THEN Raise("UnboundLocalError")
       ELSE Goto("sc_figure") /\ loc' = Bind(loc, "font_color", loc.background)

Scatters ==
    \/ CallScatters
    \/ ScGenes
    \/ ScBasis
    \/ ScDetect
    \/ ScInputs
    \/ ScVkey
    \/ ScTable
    \/ ScTheme
    \/ ScFont

(***************************************************************************)
(* The panel layout of scatters (the code after font_color), as a function *)
(* of the locals it reads: the matched genes, n_genes, mode, color, and    *)
(* the arguments type and n_columns.                                       *)
(***************************************************************************)
\* nrow of the gene grid: int(np.ceil(plot_per_gene * n_genes / n_columns))
GridRowsFloor(plot_per_gene, n_genes, n_columns) == (plot_per_gene * n_genes) \div n_columns
GridRows(plot_per_gene, n_genes, n_columns) == CeilDiv(plot_per_gene * n_genes, n_columns)

\* The grid cells gs[...] of the axes of gene i (counted from 0).
ScatterCells(i, plot_per_gene) ==
    IF plot_per_gene = 2 THEN <<i * 2, i * 2 + 1>> ELSE <<i>>

\* if type is 'embedding': nrow, ncol = ...; plt.figure; gs = plt.GridSpec
ScEmbedFigure ==
    /\ pc = "sc_figure"
    /\ Is(args.type, "embedding")
    /\ LET nrow == CeilDiv(Len(loc.color.val), args.n_columns)
       IN  /\ loc' = Bind(Bind(Bind(loc, "nrow", nrow), "ncol", args.n_columns), "i", 0)
           /\ plots' = <<Call("figure", nrow * args.n_columns)>>
    /\ pc' = "sc_embed_panels"
    /\ UNCHANGED <<fn, adata, args, exc>>

\* One turn of  for i, clr in enumerate(color).
ScEmbedPanels ==
    /\ pc = "sc_embed_panels"
    /\ IF loc.i >= Len(loc.color.val)
       THEN /\ plots' = plots \o <<Call("tight_layout", 0), Call("show", 0)>>
            /\ pc' = "done"
            /\ UNCHANGED <<fn, adata, args, loc, exc>>
       ELSE IF loc.i >= loc.nrow * loc.ncol
       THEN Raise("IndexError")
       ELSE /\ plots' = Append(plots, Call("subplot", loc.i))
            /\ UNCHANGED <<fn, adata, args>>
            \* unique_labels, label_len = np.unique(labels), len(unique_labels)
            /\ IF ~Bound(loc, "unique_labels")
               THEN exc' = "UnboundLocalError" /\ pc' = "done" /\ UNCHANGED loc
               ELSE /\ loc' = [loc EXCEPT !.i = loc.i + 1]
                    /\ UNCHANGED <<pc, exc>>

\* else: n_columns, plot_per_gene, nrow, ncol; plt.figure; gs = plt.GridSpec
ScGridFigure ==
    /\ pc = "sc_figure"
    /\ ~Is(args.type, "embedding")
    /\ LET doubled == "protein" \in adata.obsm /\ Is(loc.mode, "full")
           n_columns == IF doubled THEN 2 * args.n_columns ELSE args.n_columns
           plot_per_gene == IF doubled THEN 2 ELSE 1
           nrow == GridRows(plot_per_gene, loc.n_genes, n_columns)
       IN  /\ loc' = Bind(Bind(Bind(Bind(Bind(loc, "n_columns", n_columns),
                                         "plot_per_gene", plot_per_gene),
                                    "nrow", nrow), "ncol", n_columns), "i", 0)
           /\ plots' = <<Call("figure", nrow * n_columns)>>
    /\ pc' = "sc_panels"
    /\ UNCHANGED <<fn, adata, args, exc>>

\* The ways the body of the gene loop can end for one gene: "none", or a
\* Python-level exception.
PanelBodyOutcomes(type, l) ==
    IF Is(type, "phase")
    \* len(color) with color None; with labels, the truth value of
    \* cur_pd.color.unique() == np.nan  is numpy's to decide
    THEN IF ~l.color.some THEN {"TypeError"} ELSE {"none", "ValueError"}
    ELSE IF Is(type, "velocity")
    THEN IF ~l.color.some THEN {"TypeError"} ELSE {"none"}
    ELSE IF Is(type, "expression")
    \* df_embedding is assigned in the velocity branch only
    THEN {"UnboundLocalError"}
    ELSE {"none"}

\* One turn of  for i, gn in enumerate(genes),  then tight_layout and show.
ScPanels ==
    /\ pc = "sc_panels"
    /\ IF loc.i >= Len(loc.genes)
       THEN /\ plots' = plots \o <<Call("tight_layout", 0), Call("show", 0)>>
            /\ pc' = "done"
            /\ UNCHANGED <<fn, adata, args, loc, exc>>
       ELSE LET cells == ScatterCells(loc.i, loc.plot_per_gene)
                axes  == [k \in 1..Len(cells) |-> Call("subplot", cells[k])]
            IN  IF \E k \in 1..Len(cells) : cells[k] >= loc.nrow * loc.ncol
                THEN Raise("IndexError")
                ELSE /\ plots' = plots \o axes
                     /\ UNCHANGED <<fn, adata, args>>
                     /\ \E e \in PanelBodyOutcomes(args.type, loc) :
                           IF e # "none"
                           THEN exc' = e /\ pc' = "done" /\ UNCHANGED loc
                           ELSE /\ loc' = [loc EXCEPT !.i = loc.i + 1]
                                /\ UNCHANGED <<pc, exc>>

\* The locals at the layout code for a call with matched genes, a detected
\* mode and, for type 'embedding', a color list.
PanelsInit ==
    /\ fn = "scatters"
    /\ pc = "sc_figure"
    /\ exc = "none"
    /\ plots = <<>>
    /\ adata \in ScatterAdata
    /\ DetectedLabel(DOMAIN adata.layers) # "none"
    /\ \E g \in GeneArgs, t \in TypeArgs, n \in 1..MaxColumns, c \in ColorArgs :
          /\ Len(MatchedGenes(adata, g)) > 0
          /\ t.interned
          /\ Is(t, "embedding") => c.some
          /\ args = [genes |-> g, type |-> t, velocity_key |-> Lit("S"), ekey |-> Lit("X"),
                     basis |-> "umap", n_columns |-> n, color |-> c, theme |-> Some("fire")]
          /\ \E color \in Orderings(c.val \cap DOMAIN adata.obs) :
                /\ c.some => Len(color) > 0
                /\ loc = [genes |-> MatchedGenes(adata, g),
                          n_genes |-> IF Is(t, "embedding") THEN Len(color)
                                      ELSE Len(MatchedGenes(adata, g)),
                          n_cells |-> NCells,
                          mode |-> Lit(DetectedLabel(DOMAIN adata.layers)),
                          color |-> IF c.some THEN Some(color) ELSE NoList,
                          background |-> "fire"]

PanelsNext == ScEmbedFigure \/ ScEmbedPanels \/ ScGridFigure \/ ScPanels

SpecPanels == PanelsInit /\ [][PanelsNext]_vars

(***************************************************************************)
(* The velocity colours of one gene (preprocess.py 355-361, scatters.py    *)
(* 410-416): the same four statements in both routines.  Velocities are    *)
(* integers; limit is kept in hundredths, the grain of the 1st and 99th    *)
(* percentile, and the colours are exact fractions.                        *)
(***************************************************************************)
Abs(x) == IF x < 0 THEN -x ELSE x
Max(x, y) == IF x < y THEN y ELSE x

\* The values of v in nondecreasing order.
Sort(v) ==
    CHOOSE s \in [DOMAIN v -> {v[i] : i \in DOMAIN v}] :
        /\ \A i \in DOMAIN s : \A j \in DOMAIN s : i < j => s[i] <= s[j]
        /\ \A x \in {v[i] : i \in DOMAIN v} :
              Cardinality({i \in DOMAIN v : v[i] = x}) =
                  Cardinality({i \in DOMAIN s : s[i] = x})

\* np.nanpercentile(v, q) in hundredths, by linear interpolation between
\* the order statistics around position (n - 1) * q / 100.
Percentile(v, q) ==
    LET s == Sort(v)
        k == ((Len(v) - 1) * q) \div 100
        f == ((Len(v) - 1) * q) % 100
    IN  IF f = 0 THEN 100 * s[k + 1]
        ELSE 100 * s[k + 1] + f * (s[k + 2] - s[k + 1])

\* limit = np.nanmax(np.abs(np.nanpercentile(V_vec, [1, 99]))), in hundredths
Limit(v) == Max(Abs(Percentile(v, 1)), Abs(Percentile(v, 99)))

\* V_vec + limit, in hundredths
Shift(v, limit) == [c \in DOMAIN v |-> 100 * v[c] + limit]

\* V_vec / (2 * limit) in floating point: nan for 0/0, +-inf for x/0
Scale(v, limit) ==
    [c \in DOMAIN v |->
        IF limit # 0 THEN Div(v[c], 2 * limit)
        ELSE [kind |-> IF v[c] = 0 THEN "nan" ELSE IF v[c] > 0 THEN "inf" ELSE "-inf",
              num |-> 0, den |-> 1]]

\* np.clip(V_vec, 0, 1): nan stays nan
Clip(v) ==
    [c \in DOMAIN v |->
        IF v[c].kind = "nan" THEN v[c]
        ELSE IF v[c].kind = "inf" THEN Div(1, 1)
        ELSE IF v[c].kind = "-inf" THEN Div(0, 1)
        ELSE IF v[c].num < 0 THEN Div(0, 1)
        ELSE IF v[c].num > v[c].den THEN Div(1, 1)
        ELSE v[c]]

VelocityVectors == [Cells -> (-MaxVelocity)..MaxVelocity]

\* V_vec = df_embedding.loc[:, 'velocity'] of the gene at hand.
ColoursInit ==
    /\ fn \in {"phase_portraits", "scatters"}
    /\ pc = "vc_limit"
    /\ exc = "none"
    /\ plots = <<>>
    /\ adata = NoAdata
    /\ args = NoArgs
    /\ \E v \in VelocityVectors : loc = [velocity |-> v, V_vec |-> v]

\* limit = ...
VcLimit ==
    /\ pc = "vc_limit"
    /\ loc' = Bind(loc, "limit", Limit(loc.V_vec))
    /\ Goto("vc_shift")

\* V_vec = V_vec + limit
VcShift ==
    /\ pc = "vc_shift"
    /\ loc' = [loc EXCEPT !.V_vec = Shift(loc.V_vec, loc.limit)]
    /\ Goto("vc_scale")

\* V_vec = V_vec / (2 * limit)
VcScale ==
    /\ pc = "vc_scale"
    /\ loc' = [loc EXCEPT !.V_vec = Scale(loc.V_vec, loc.limit)]
    /\ Goto("vc_clip")

\* V_vec = np.clip(V_vec, 0, 1)
VcClip ==
    /\ pc = "vc_clip"
    /\ loc' = [loc EXCEPT !.V_vec = Clip(loc.V_vec)]
    /\ Goto("vc_done")

ColoursNext == VcLimit \/ VcShift \/ VcScale \/ VcClip

SpecColours == ColoursInit /\ [][ColoursNext]_vars

(***************************************************************************)
(* variance_explained (preprocess.py).  The explained variance ratios and  *)
(* the threshold are integers, multiples of a common unit.                 *)
(***************************************************************************)
RECURSIVE CumSumTo(_, _)
CumSumTo(v, n) == IF n = 0 THEN 0 ELSE v[n] + CumSumTo(v, n - 1)

\* np.cumsum
CumSum(v) == [i \in 1..Len(v) |-> CumSumTo(v, i)]

\* np.diff of a numeric array: out[i] = a[i+1] - a[i]
Diff(a) == [i \in 1..(IF Len(a) = 0 THEN 0 ELSE Len(a) - 1) |-> a[i + 1] - a[i]]

\* np.diff of a boolean array: out[i] = a[i+1] != a[i]
DiffBool(a) == [i \in 1..(IF Len(a) = 0 THEN 0 ELSE Len(a) - 1) |-> a[i + 1] # a[i]]

\* The left operand of `> threshold` in line 129.
Compared(var_) == Diff(CumSum(var_))

\* tmp = np.diff(np.diff(np.cumsum(var_)) > threshold)
Tmp(var_, threshold) ==
    LET d == Compared(var_)
    IN  DiffBool([i \in 1..Len(d) |-> d[i] > threshold])

\* np.where(tmp)[0][0] if np.any(tmp) else 20
FirstTrue(tmp) ==
    IF \E i \in 1..Len(tmp) : tmp[i]
    THEN (CHOOSE i \in 1..Len(tmp) : tmp[i] /\ \A j \in 1..(i - 1) : ~tmp[j]) - 1
    ELSE 20

Ratios == UNION {[1..n -> 0..MaxRatio] : n \in 0..MaxPcs}

UnsAdata == {[uns |-> [explained_variance_ratio_ |-> v]] : v \in Ratios}
               \cup {[uns |-> [pca_fit |-> <<>>]]}

ThresholdArgs == 0..MaxRatio
NPcsArgs == {[some |-> FALSE, val |-> 0], Some(2)}

CallVarianceExplained ==
    /\ pc = "idle"
    /\ \E a \in UnsAdata, t \in ThresholdArgs, n \in NPcsArgs :
          Start("variance_explained", a, [threshold |-> t, n_pcs |-> n], "ve_cumsum")

\* var_ = adata.uns["explained_variance_ratio_"]; plt.plot(np.cumsum(var_))
VeCumsum ==
    /\ pc = "ve_cumsum"
    /\ IF "explained_variance_ratio_" \notin DOMAIN adata.uns
       THEN Raise("KeyError")
       ELSE /\ loc' = Bind(loc, "var_", adata.uns.explained_variance_ratio_)
            /\ plots' = <<"plot">>
            /\ pc' = "ve_comps"
            /\ UNCHANGED <<fn, adata, args, exc>>

\* tmp = ...; n_comps = n_pcs if n_pcs is not None else ...
VeComps ==
    /\ pc = "ve_comps"
    /\ LET tmp == Tmp(loc.var_, args.threshold)
       IN  loc' = Bind(Bind(Bind(loc, "compared", Compared(loc.var_)), "tmp", tmp),
                       "n_comps", IF args.n_pcs.some THEN args.n_pcs.val
                                  ELSE FirstTrue(tmp))
    /\ Goto("ve_plot")

\* plt.axvline(n_comps, c="k"), the axis labels and plt.show().
VePlot ==
    /\ pc = "ve_plot"
    /\ plots' = plots \o <<"axvline", "xlabel", "ylabel", "show">>
    /\ pc' = "done"
    /\ UNCHANGED <<fn, adata, args, loc, exc>>

VarianceExplained == CallVarianceExplained \/ VeCumsum \/ VeComps \/ VePlot

(***************************************************************************)
(* feature_genes (preprocess.py).                                          *)
(***************************************************************************)
\* Iterating a str yields its characters.
Chars(s) == {SubSeq(s, i, i) : i \in 1..Len(s)}

\* layer_keys = list(adata.layers.keys()); layer_keys.extend('X')
LayerKeys(a) == (DOMAIN a.layers) \cup Chars("X")

\* set(layer_keys).intersection(layer): the argument is iterated, so the
\* keys kept are those equal to one of the elements of `layer`.
KeysInLayer(a, layer) == LayerKeys(a) \cap Chars(layer)

FeatureLayerSets ==
    {{}, {"spliced", "unspliced"}, {"X_spliced", "X_unspliced"}, {"S", "U"},
     {"raw", "spliced", "S"}, {"X_spliced", "S", "X"}}

FeatureAdata ==
    {AnnData(Layers(ks), sp, ObsTable, {}, VarIndex, vc) :
        ks \in FeatureLayerSets, sp \in BOOLEAN,
        vc \in {{}, {"use_for_dynamo"}}}

LayerArgs == {"X", "raw", "spliced", "unspliced", "X_spliced", "S", "U", "protein"}

CallFeatureGenes ==
    /\ pc = "idle"
    /\ \E a \in FeatureAdata, l \in LayerArgs :
          Start("feature_genes", a, [layer |-> l], "fg_table")

\* disp_table = topTable(adata, layer), a routine of the preprocessing
\* package: it returns the table or raises.  Then ordering_genes.
FgTable ==
    /\ pc = "fg_table"
    /\ \E returns \in BOOLEAN :
          IF ~returns
          THEN Raise("topTable")
          ELSE /\ Goto("fg_layer")
               /\ loc' = Bind(loc, "ordering_genes",
                              IF "use_for_dynamo" \in adata.var_columns
                              THEN Some("use_for_dynamo") ELSE None)

\* layer = list(set(layer_keys).intersection(layer))[0]: IndexError on the
\* empty list, otherwise whichever element the set yields first.
FgLayer ==
    /\ pc = "fg_layer"
    /\ LET found == KeysInLayer(adata, args.layer)
       IN  IF found = {}
           THEN Raise("IndexError")
           ELSE \E k \in found : Goto("fg_plot") /\ loc' = Bind(loc, "layer", k)

\* key, the fitted curve, the two scatter plots and plt.show().
FgPlot ==
    /\ pc = "fg_plot"
    /\ loc' = Bind(loc, "key", IF loc.layer \in {"raw", "X"} THEN "dispFitInfo"
                               ELSE loc.layer \o "_dispFitInfo")
    /\ plots' = <<"plot", "scatter", "scatter", "show">>
    /\ pc' = "done"
    /\ UNCHANGED <<fn, adata, args, exc>>

FeatureGenes == CallFeatureGenes \/ FgTable \/ FgLayer \/ FgPlot

(***************************************************************************)
(* The program: calls of the routines, one after the other.                *)
(***************************************************************************)
Next == ShowFraction \/ PhasePortraits \/ Scatters \/ VarianceExplained
           \/ FeatureGenes \/ Return

Spec == Init /\ [][Next]_vars

(***************************************************************************)
(* Properties of show_fraction.                                            *)
(***************************************************************************)
\* The row sum of layer k for cell c, from the data of adata.
CellSum(k, c) == SumTo(adata.layers[k][c], NVars)

SplicingCategories ==
    IF "ambiguous" \in DOMAIN adata.layers
    THEN <<"unspliced", "spliced", "ambiguous">>
    ELSE <<"unspliced", "spliced">>

CellTotal(cats, c) ==
    LET sums == [i \in 1..Len(cats) |-> CellSum(cats[i], c)]
    IN  SumTo(sums, Len(cats))

\* value * den = num, for a value of the table
IsFraction(v, num, den) == v.kind = "num" /\ v.num * den = num * v.den

RECURSIVE RatSum(_, _)
RatSum(fs, n) ==
    IF n = 0 THEN [num |-> 0, den |-> 1]
    ELSE LET r == RatSum(fs, n - 1)
         IN  [num |-> r.num * fs[n].den + fs[n].num * r.den, den |-> r.den * fs[n].den]

RowsOf(res, variable, c) ==
    {k \in 1..Len(res) : res[k].variable = variable /\ res[k].cell = c}

CellValues(res, cats, c) ==
    [i \in 1..Len(cats) |-> res[CHOOSE k \in RowsOf(res, cats[i], c) : TRUE].value]

SplicingCall ==
    /\ fn = "show_fraction"
    /\ args.mode.val = "splicing"
    /\ AllIn({"spliced", "unspliced"}, DOMAIN adata.layers)

\* C1: in show_fraction with mode 'splicing' and the layers spliced and
\* unspliced present, the table holds one row per cell and included category
\* (unspliced, spliced, and ambiguous exactly when that layer exists); for
\* every cell with a non-zero total the value of a row is the row sum of its
\* category divided by the sum of the included row sums, and the values of
\* the cell add up to 1.  With mode the interned 'splicing' the call builds
\* this table and goes on to plot it.
C1_SplicingFractions ==
    SplicingCall =>
        /\ (args.mode.interned /\ pc \in {"sf_plot", "done"}) =>
               exc = "none" /\ Bound(loc, "res")
        /\ (args.mode.interned /\ pc = "done") => plots # <<>>
        /\ Bound(loc, "res") =>
               LET res  == loc.res
                   cats == SplicingCategories
               IN  /\ Len(res) = NCells * Len(cats)
                   /\ \A k \in 1..Len(res) :
                         \E i \in 1..Len(cats) : res[k].variable = cats[i]
                   /\ \A c \in Cells : \A i \in 1..Len(cats) :
                         Cardinality(RowsOf(res, cats[i], c)) = 1
                   /\ \A k \in 1..Len(res) :
                         CellTotal(cats, res[k].cell) # 0 =>
                             IsFraction(res[k].value,
                                        CellSum(res[k].variable, res[k].cell),
                                        CellTotal(cats, res[k].cell))
                   /\ \A c \in Cells :
                         CellTotal(cats, c) # 0 =>
                             LET s == RatSum(CellValues(res, cats, c), Len(cats))
                             IN  s.num = s.den

\* A table of three categories in which some cell has unspliced, spliced and
\* ambiguous counts, while another cell has no counts at all.
C1_Witness ==
    /\ SplicingCall
    /\ pc = "sf_plot"
    /\ Bound(loc, "res")
    /\ "ambiguous" \in DOMAIN adata.layers
    /\ \E c \in Cells :
          /\ CellSum("unspliced", c) > 0
          /\ CellSum("spliced", c) > 0
          /\ CellSum("ambiguous", c) > 0
    /\ \E c \in Cells : CellTotal(SplicingCategories, c) = 0

\* C2: in show_fraction with mode 'labelling' and the layers new and total
\* present, the call completes without raising, and for every cell new_frac
\* is the row sum of new over the row sum of total and old_frac = 1 - new_frac.
C2_LabellingFractions ==
    (/\ fn = "show_fraction"
     /\ Is(args.mode, "labelling")
     /\ AllIn({"new", "total"}, DOMAIN adata.layers)
     /\ pc = "done") =>
        /\ exc = "none"
        /\ Bound(loc, "res")
        /\ \A k \in 1..Len(loc.res) :
              LET r == loc.res[k]
                  n == CellSum("new", r.cell)
                  t == CellSum("total", r.cell)
              IN  t # 0 =>
                     IF r.variable = "new_frac_cell"
                     THEN IsFraction(r.value, n, t)
                     ELSE IsFraction(r.value, t - n, t)

\* C3: in show_fraction with mode 'full' and the layers uu, ul, su, sl
\* present, the call completes without raising and yields one value per cell
\* for each of uu_frac, ul_frac, su_frac, sl_frac: the row sum of the
\* category over the sum of the four row sums.
C3_FullFractions ==
    (/\ fn = "show_fraction"
     /\ Is(args.mode, "full")
     /\ AllIn({"uu", "ul", "su", "sl"}, DOMAIN adata.layers)
     /\ pc = "done") =>
        /\ exc = "none"
        /\ Bound(loc, "res")
        /\ Len(loc.res) = 4 * NCells
        /\ \A k \in 1..Len(loc.res) :
              LET r == loc.res[k]
                  t == CellTotal(<<"uu", "ul", "su", "sl">>, r.cell)
              IN  /\ r.variable \in {"uu_frac", "ul_frac", "su_frac", "sl_frac"}
                  /\ t # 0 => IsFraction(r.value, CellSum(SubSeq(r.variable, 1, 2), r.cell), t)

InvalidModeCall ==
    /\ fn \in {"show_fraction", "phase_portraits"}
    /\ args.mode.val \notin ModeNames

\* C4: for a mode outside {'labelling', 'splicing', 'full'}, show_fraction
\* and phase_portraits raise before anything is plotted: the call never gets
\* past the mode check, it ends with the mode exception (in phase_portraits
\* possibly with the earlier genes or basis exception) and no plotting call
\* is made, whatever the layers.
C4_InvalidModeRaises ==
    InvalidModeCall =>
        /\ plots = <<>>
        /\ pc \in {"sf_mode", "pp_genes", "pp_basis", "pp_mode", "done"}
        /\ pc = "done" =>
              IF fn = "show_fraction" THEN exc = ModeMsg
              ELSE exc \in {NoGenesMsg, NoBasisMsg, ModeMsg}

\* phase_portraits, with genes and basis in order and every layer of the
\* splicing mode present, ends with the mode exception.
C4_Witness ==
    /\ InvalidModeCall
    /\ fn = "phase_portraits"
    /\ pc = "done"
    /\ exc = ModeMsg
    /\ AllIn({"spliced", "unspliced", "X_spliced", "X_unspliced"}, DOMAIN adata.layers)

\* The layers a mode needs.
RequiredLayers(m) ==
    IF m = "labelling" THEN {"new", "total"}
    ELSE IF m = "splicing" THEN {"spliced", "unspliced"}
    ELSE {"uu", "ul", "su", "sl"}

MissingLayersCall ==
    /\ fn = "show_fraction"
    /\ args.mode.val \in ModeNames
    /\ ~(RequiredLayers(args.mode.val) \subseteq DOMAIN adata.layers)

\* C5: for a valid mode whose required layers are not all present,
\* show_fraction raises 'Your adata is corrupted' and draws nothing, also
\* when the layers of another mode are all present.
C5_MissingLayersRaise ==
    MissingLayersCall =>
        /\ plots = <<>>
        /\ pc \in {"sf_mode", "sf_table", "done"}
        /\ pc = "done" => exc = CorruptedMsg

\* Mode 'labelling' without the layer total, on data that holds every layer
\* of the splicing mode and some layer of its own.
C5_Witness ==
    /\ MissingLayersCall
    /\ pc = "done"
    /\ exc = CorruptedMsg
    /\ Is(args.mode, "labelling")
    /\ "new" \in DOMAIN adata.layers
    /\ RequiredLayers("splicing") \subseteq DOMAIN adata.layers

(***************************************************************************)
(* Properties of scatters and phase_portraits.                             *)
(***************************************************************************)
\* C6: the mode label scatters derives from the layers is one of the labels
\* its table-building chain accepts.
C6_DetectedLabelAccepted ==
    (fn = "scatters" /\ Bound(loc, "mode")) => loc.mode.val \in DispatchLabels

\* C7: for velocity_key 'S' or 'U' and a type other than 'embedding',
\* scatters does not raise the 'adata has no vkey' exception.
C7_VelocityKeyAccepted ==
    (/\ fn = "scatters"
     /\ args.velocity_key.val \in {"S", "U"}
     /\ args.type.val # "embedding") =>
        exc # NoVkeyMsg

\* C8: for type 'embedding' with color listing a column of adata.obs, every
\* variable scatters reads has been assigned before it is read.
C8_EmbeddingVariablesBound ==
    (/\ fn = "scatters"
     /\ Is(args.type, "embedding")
     /\ args.color.some
     /\ args.color.val \cap DOMAIN adata.obs # {}) =>
        exc # "UnboundLocalError"

SubplotCells == SelectSeq(plots, LAMBDA p : p.call = "subplot")

C10_ExistingVkeyAccepted ==
    (/\ fn = "phase_portraits"
     /\ (args.vkey.val \in DOMAIN adata.layers \/ args.vkey.val \in adata.obsm)) =>
        exc # NoVkeyMsg

NoGenesCall ==
    /\ fn \in {"phase_portraits", "scatters"}
    /\ \A i \in DOMAIN adata.var_index : adata.var_index[i] \notin args.genes

NoBasisCall ==
    /\ fn \in {"phase_portraits", "scatters"}
    /\ ("X_" \o args.basis) \notin adata.obsm

\* C11: when none of the requested genes is in adata.var.index or 'X_' + basis
\* is not a key of adata.obsm, phase_portraits and scatters never get past
\* these two checks and make no plotting call; they end with an exception,
\* the 'no genes' one whenever no gene matches (also when the basis is
\* missing as well), the 'basis' one otherwise.
C11_GenesCheckedBeforeBasis ==
    (NoGenesCall \/ NoBasisCall) =>
        /\ plots = <<>>
        /\ pc \in {"pp_genes", "pp_basis", "sc_genes", "sc_basis", "done"}
        /\ pc = "done" => exc = (IF NoGenesCall THEN NoGenesMsg ELSE NoBasisMsg)

\* scatters called with no matching gene and a basis that was never applied
\* has ended with the 'no genes' exception.
C11_Witness ==
    /\ NoGenesCall
    /\ NoBasisCall
    /\ fn = "scatters"
    /\ pc = "done"
    /\ exc = NoGenesMsg

(***************************************************************************)
(* Properties of feature_genes.                                            *)
(***************************************************************************)
ExistingLayerCall ==
    /\ fn = "feature_genes"
    /\ (args.layer = "X" \/ args.layer \in DOMAIN adata.layers)

\* C12: feature_genes called with layer 'X' or with the name of a key of
\* adata.layers does not fail in the resolution of the layer, whatever the
\* length of the name, and once resolved the layer is the name it was given.
C12_LayerResolved ==
    ExistingLayerCall =>
        /\ exc # "IndexError"
        /\ Bound(loc, "layer") => loc.layer = args.layer

(***************************************************************************)
(* Properties of variance_explained.                                       *)
(***************************************************************************)
\* c[i+2] - 2*c[i+1] + c[i] for the cumulative sum c of v.
SecondDifference(v) ==
    LET c == [i \in 1..Len(v) |-> CumSumTo(v, i)]
    IN  [i \in 1..(IF Len(c) < 2 THEN 0 ELSE Len(c) - 2) |->
            c[i + 2] - 2 * c[i + 1] + c[i]]

\* C13: in variance_explained with n_pcs None, what is compared against
\* threshold is the second-order difference of the cumulative sum of the
\* explained variance ratios, and n_comps is the first index where that
\* comparison changes, or 20.
C13_SecondDerivativeCompared ==
    (/\ fn = "variance_explained"
     /\ ~args.n_pcs.some
     /\ Bound(loc, "n_comps")) =>
        /\ loc.compared = SecondDifference(loc.var_)
        /\ loc.n_comps =
              FirstTrue(DiffBool([i \in 1..Len(SecondDifference(loc.var_)) |->
                                     SecondDifference(loc.var_)[i] > args.threshold]))

====
